---------------------------- MODULE Spec2Model ----------------------------
(***************************************************************************)
(* Model of app.py, the GW+IRC Donation Audit Assistant: a Streamlit       *)
(* script that is re-executed top to bottom on every widget interaction.   *)
(* One action of the model is one full script run (a render pass).         *)
(*                                                                         *)
(* Texts are sequences of atoms.  An atom is either a line-break character *)
(* ("\n" or "\r") or a non-empty chunk of characters without line breaks.  *)
(* Python's None is kept apart from the empty string by wrapping optional  *)
(* values in records with a "kind" field.                                  *)
(***************************************************************************)
EXTENDS Integers, Sequences, FiniteSets

\* ------------------------------------------------------------------ bounds
MaxClock == 1      \* wall-clock readings offered to datetime.now()
MaxLen == 3        \* longest text handed to the helper functions directly

\* ------------------------------------------------------- optional values
None == [kind |-> "none", v |-> <<>>]
Str(s) == [kind |-> "str", v |-> s]
Bytes(b) == [kind |-> "bytes", v |-> b]

\* Python truthiness of an optional str / bytes value: None and the empty
\* value are falsy.
Truthy(x) == x.kind # "none" /\ x.v # <<>>

\* `x or ""`
OrEmpty(x) == IF Truthy(x) THEN x.v ELSE <<>>

\* ----------------------------------------------------------------- images
NoImage == [kind |-> "none", id |-> 0, pngOk |-> FALSE, prefix |-> ""]
Pil(i, ok) == [kind |-> "pil", id |-> i, pngOk |-> ok, prefix |-> ""]
StrImage(p, i) == [kind |-> "str", id |-> i, pngOk |-> FALSE, prefix |-> p]

\* image.startswith("data:image") for the string images of the model
StartsWithDataImage(p) == p \in {"data:image/png;base64,", "data:image/jpeg;base64,"}

\* --------------------------------------------------------- uploaded files
\* What st.camera_input / st.file_uploader hand to the script: nothing, or a
\* file-like object.  decode says which of the two decode attempts works:
\* "direct" (Image.open on the handle), "bytes" (only the getvalue() fallback)
\* or "bad" (neither).  pngOk says whether the decoded bitmap can be written
\* as PNG (a CMYK JPEG decodes but cannot).
NoFile == [present |-> FALSE, id |-> 0, decode |-> "bad", pngOk |-> FALSE]
File(i, d, ok) == [present |-> TRUE, id |-> i, decode |-> d, pngOk |-> ok]

Files ==
  { File(1, "direct", TRUE), File(2, "bytes", FALSE), File(3, "bad", FALSE) }

OptFiles == {NoFile} \cup Files

\* `cam or upl`: an UploadedFile object is always truthy, None is not.
Uploaded(c, u) == IF c.present THEN c ELSE u

_load_pil_from_uploaded(uploaded) ==
  IF ~uploaded.present THEN NoImage
  ELSE IF uploaded.decode = "direct" THEN Pil(uploaded.id, uploaded.pngOk)
  ELSE IF uploaded.decode = "bytes" THEN Pil(uploaded.id, uploaded.pngOk)
  ELSE NoImage

\* ------------------------------------------------------------ _read_texts
\* A path is modelled by what open()/read() yields for it: None when the file
\* is missing or unreadable, else its text.
RECURSIVE JoinNewline(_)
JoinNewline(parts) ==
  IF parts = <<>> THEN <<>>
  ELSE IF Len(parts) = 1 THEN Head(parts)
  ELSE Head(parts) \o <<"\n">> \o JoinNewline(Tail(parts))

RECURSIVE ReadParts(_)
ReadParts(paths) ==
  IF paths = <<>> THEN <<>>
  ELSE IF Head(paths).kind = "none" THEN ReadParts(Tail(paths))
  ELSE <<Head(paths).v>> \o ReadParts(Tail(paths))

_read_texts(paths) == JoinNewline(ReadParts(paths))

\* prompt = (system_prompt or "") + "\n" + (guides_text or "")
Prompt(promptFile, doc1, doc2) ==
  _read_texts(<<promptFile>>) \o <<"\n">> \o _read_texts(<<doc1, doc2>>)

\* --------------------------------------------------------- _to_mm_content
NoUrl == [prefix |-> "", data |-> 0]
TextPart(t) == [type |-> "input_text", text |-> t, image_url |-> NoUrl]
ImagePart(url) == [type |-> "input_image", text |-> <<>>, image_url |-> url]

\* image.save(buf, format="PNG"): raises for a bitmap PNG cannot hold.
PngSaveRaises(image) == ~image.pngOk

\* f"data:image/png;base64,{b64}" of the PNG serialisation of the bitmap
PngDataUrl(image) == [prefix |-> "data:image/png;base64,", data |-> image.id]

\* lines 57-58
TextParts(text) == IF Truthy(text) THEN <<TextPart(text.v)>> ELSE <<>>

\* lines 60-69
ImageParts(image) ==
  IF image.kind = "str" /\ StartsWithDataImage(image.prefix)
    THEN <<ImagePart([prefix |-> image.prefix, data |-> image.id])>>
  ELSE IF image.kind = "pil"
    THEN IF PngSaveRaises(image) THEN <<>>
         ELSE <<ImagePart(PngDataUrl(image))>>
  ELSE <<>>

\* Faulty variant: the image part appended before the text part.
_to_mm_content_ImageFirst(text, image) == ImageParts(image) \o TextParts(text)

_to_mm_content(text, image) == TextParts(text) \o ImageParts(image)

\* ----------------------------------------------------------------- client
\* client = OpenAI(api_key=openai_key) if openai_key else None
\* Faulty variant: `is not None` in place of truthiness, so an empty key makes a client.
OpenAIClient_IsNotNone(openai_key) == openai_key.kind # "none"

OpenAIClient(openai_key) == Truthy(openai_key)

Keys == {None, Str(<<>>), Str(<<"sk-key">>)}

\* --------------------------------------------------------------- _process
NotConfigured == <<"OpenAI client not configured (missing API key).">>

\* What client.responses.create does: raise, or return a response object.
\* A response object may or may not carry output_text; navigating
\* output[0].content[0].text either fails or yields a value (possibly None).
Raise(msg) ==
  [kind |-> "raise", msg |-> msg, has_output_text |-> FALSE,
   output_text |-> None, nav_ok |-> FALSE, nested_text |-> None]
Response(has, ot, nav, nt) ==
  [kind |-> "resp", msg |-> <<>>, has_output_text |-> has,
   output_text |-> ot, nav_ok |-> nav, nested_text |-> nt]

\* str(response)
ReprOf(response) == <<"Response(...)">>

\* Faulty variant: the nested output[0].content[0].text step left out.
ExtractText_SkipNested(response) ==
  LET text == IF response.has_output_text THEN response.output_text ELSE None
  IN IF Truthy(text) THEN text ELSE Str(ReprOf(response))

\* lines 101-107: the answer taken from a response object
ExtractText(response) ==
  LET text == IF response.has_output_text THEN response.output_text ELSE None
  IN IF Truthy(text) THEN text
     ELSE IF response.nav_ok THEN response.nested_text
     ELSE Str(ReprOf(response))

NoInput == [kind |-> "none", content |-> <<>>, text |-> <<>>]

\* input=[{"role": "user", "content": content}] if content else prompt_text
RequestInput(content, prompt_text) ==
  IF content # <<>>
    THEN [kind |-> "user_turn", content |-> content, text |-> <<>>]
    ELSE [kind |-> "raw", content |-> <<>>, text |-> prompt_text]

\* The result records whether the call raised (and with what message), the
\* returned text, the number of remote calls made, whether request content
\* was built, and what was sent.
_process(openai_key, prompt_text, image, outcome) ==
  IF ~OpenAIClient(openai_key)
    THEN [raised |-> FALSE, msg |-> <<>>, text |-> Str(NotConfigured),
          calls |-> 0, built |-> FALSE, sent |-> NoInput]
  ELSE LET content == _to_mm_content(Str(prompt_text), image)
           sent == RequestInput(content, prompt_text)
       IN IF outcome.kind = "raise"
            THEN [raised |-> TRUE, msg |-> outcome.msg, text |-> None,
                  calls |-> 1, built |-> TRUE, sent |-> sent]
            ELSE [raised |-> FALSE, msg |-> <<>>, text |-> ExtractText(outcome),
                  calls |-> 1, built |-> TRUE, sent |-> sent]

\* ------------------------------------------------------- str.splitlines
IsBreak(a) == a \in {"\n", "\r"}

\* Python's splitlines over the atoms of the model: "\n", "\r" and the pair
\* "\r\n" each end a line; a text ending in a line break has no trailing
\* empty line.
RECURSIVE SplitFrom(_, _, _, _)
SplitFrom(s, i, cur, acc) ==
  IF i > Len(s) THEN (IF cur # <<>> THEN Append(acc, cur) ELSE acc)
  ELSE IF s[i] = "\r" /\ i < Len(s) /\ s[i + 1] = "\n"
    THEN SplitFrom(s, i + 2, <<>>, Append(acc, cur))
  ELSE IF IsBreak(s[i]) THEN SplitFrom(s, i + 1, <<>>, Append(acc, cur))
  ELSE SplitFrom(s, i + 1, Append(cur, s[i]), acc)

\* Faulty variant: text.split("\n") in place of text.splitlines().
RECURSIVE SplitNewlineFrom(_, _, _, _)
SplitNewlineFrom(s, i, cur, acc) ==
  IF i > Len(s) THEN Append(acc, cur)
  ELSE IF s[i] = "\n" THEN SplitNewlineFrom(s, i + 1, <<>>, Append(acc, cur))
  ELSE SplitNewlineFrom(s, i + 1, Append(cur, s[i]), acc)

SplitLines_OnNewlineOnly(s) == SplitNewlineFrom(s, 1, <<>>, <<>>)

SplitLines(s) == SplitFrom(s, 1, <<>>, <<>>)

\* -------------------------------------------------- _docx_bytes_from_text
Title == <<"Donation Audit">>

\* The blocks python-docx appends to the document body.
Heading(t) == [kind |-> "heading", text |-> t, img |-> 0, width |-> ""]
Picture(i) == [kind |-> "picture", text |-> <<>>, img |-> i, width |-> "printable"]
Paragraph(t) == [kind |-> "paragraph", text |-> t, img |-> 0, width |-> ""]

\* doc.save(out); out.getvalue(): the package wrapper followed by the body.
PackagePart == [kind |-> "package", text |-> <<>>, img |-> 0, width |-> ""]
DocSave(doc) == <<PackagePart>> \o doc

ParagraphsOf(lines) == [k \in 1..Len(lines) |-> Paragraph(lines[k])]

\* image.save(img_buf, format="PNG") is not guarded here: a bitmap PNG cannot
\* hold (or an object that is no bitmap) makes the function raise.
_docx_bytes_from_text(text, image) ==
  LET head == IF Title # <<>> THEN <<Heading(Title)>> ELSE <<>>
      raises == image.kind = "str" \/ (image.kind = "pil" /\ PngSaveRaises(image))
      pic == IF image.kind # "none" THEN <<Picture(image.id), Paragraph(<<>>)>>
             ELSE <<>>
      body == ParagraphsOf(SplitLines(OrEmpty(text)))
  IN IF raises THEN [raised |-> TRUE, bytes |-> None]
     ELSE [raised |-> FALSE, bytes |-> Bytes(DocSave(head \o pic \o body))]

\* ----------------------------------------------------------- docx_filename
Digits == <<"0", "1", "2", "3", "4", "5", "6", "7", "8", "9">>
TwoDigits(n) == <<Digits[(n \div 10) + 1], Digits[(n % 10) + 1]>>

\* datetime.now().strftime('%Y%m%d-%H%M%S'), for a clock reading t given in
\* seconds after 2025-01-01 00:00:00 (t below 31 days).
Strftime(t) ==
  <<"2", "0", "2", "5">> \o <<"0", "1">> \o TwoDigits(1 + (t \div 86400))
    \o <<"-">> \o TwoDigits((t % 86400) \div 3600)
    \o TwoDigits((t % 3600) \div 60) \o TwoDigits(t % 60)

Filename(t) == <<"GW-IRC-Donation-Value-Audit--">> \o Strftime(t) \o <<".docx">>

\* The clock readings of the model: 0:00:00, 1:11:11, 2:22:22, ...
Times == { k * 4271 : k \in 0..MaxClock }

\* ------------------------------------------------------------------ state
VARIABLES
  cam,            \* value of the camera widget (key "camera")
  upl,            \* value of the uploader widget (key "uploader")
  last_output,    \* st.session_state.last_output
  docx_bytes,     \* st.session_state.docx_bytes
  docx_filename,  \* st.session_state.docx_filename
  inSync,         \* last_output and docx_bytes were last written by the same
                  \* script run (or neither was ever written)
  pass,           \* what the latest script run did and put on the page
  call            \* the latest direct call of a helper function

vars == <<cam, upl, last_output, docx_bytes, docx_filename, inSync, pass, call>>

NoCall == [fn |-> "none"]

\* Faulty variant: the button never disabled.
ProcessDisabled_Never(image_pil) == FALSE

\* disabled=(image_pil is None)
ProcessDisabled(image_pil) == image_pil.kind = "none"

\* f"Error calling OpenAI: {e}"
ErrorPrefix == "Error calling OpenAI: "
ErrorText(msg) == <<ErrorPrefix>> \o msg

\* lines 184-187: the fault boundary around _process
OutText(r) == IF r.raised THEN Str(ErrorText(r.msg)) ELSE r.text

\* out_area.markdown(out_text if out_text else "_No output._")
OutArea(out_text) == IF Truthy(out_text) THEN out_text.v ELSE <<"_No output._">>

\* Faulty variant: the new text appended to the stored one.
StoreResult_Appending(sess, out_text, image_pil, t) ==
  LET d == _docx_bytes_from_text(Str(OrEmpty(out_text)), image_pil)
      merged == Str(OrEmpty(sess.last_output) \o OrEmpty(out_text))
  IN IF d.raised
       THEN [last_output |-> merged, docx_bytes |-> sess.docx_bytes,
             docx_filename |-> sess.docx_filename, inSync |-> FALSE,
             crashed |-> TRUE]
       ELSE [last_output |-> merged, docx_bytes |-> d.bytes,
             docx_filename |-> Str(Filename(t)), inSync |-> TRUE,
             crashed |-> FALSE]

\* Faulty variant: the filename assigned before the export runs.
StoreResult_FilenameFirst(sess, out_text, image_pil, t) ==
  LET d == _docx_bytes_from_text(Str(OrEmpty(out_text)), image_pil)
  IN IF d.raised
       THEN [last_output |-> out_text, docx_bytes |-> sess.docx_bytes,
             docx_filename |-> Str(Filename(t)), inSync |-> FALSE,
             crashed |-> TRUE]
       ELSE [last_output |-> out_text, docx_bytes |-> d.bytes,
             docx_filename |-> Str(Filename(t)), inSync |-> TRUE,
             crashed |-> FALSE]

\* lines 193-195: the three session_state assignments, in order.  The export
\* runs between the first and the second; when it raises, the script run ends
\* there and the first assignment stays.
StoreResult(sess, out_text, image_pil, t) ==
  LET d == _docx_bytes_from_text(Str(OrEmpty(out_text)), image_pil)
  IN IF d.raised
       THEN [last_output |-> out_text, docx_bytes |-> sess.docx_bytes,
             docx_filename |-> sess.docx_filename, inSync |-> FALSE,
             crashed |-> TRUE]
       ELSE [last_output |-> out_text, docx_bytes |-> d.bytes,
             docx_filename |-> Str(Filename(t)), inSync |-> TRUE,
             crashed |-> FALSE]

\* if st.session_state.docx_bytes and st.session_state.last_output:
DownloadVisible(lo, db) == Truthy(db) /\ Truthy(lo)

\* One execution of the script, with the widget values c and u, the Process
\* button reporting `clicked`, the secret `key`, the prompt read from the
\* asset files, what the remote service would answer, and the clock.  The
\* pass records the key only when the run used the client.
RunScript(clicked, c, u, key, prompt, outcome, t) ==
  LET image_pil == _load_pil_from_uploaded(Uploaded(c, u))
      sess == [last_output |-> last_output, docx_bytes |-> docx_bytes,
               docx_filename |-> docx_filename, inSync |-> inSync,
               crashed |-> FALSE]
      r == _process(key, prompt, image_pil, outcome)
      out_text == OutText(r)
      after == IF clicked THEN StoreResult(sess, out_text, image_pil, t) ELSE sess
      shown == ~after.crashed /\ DownloadVisible(after.last_output, after.docx_bytes)
  IN /\ cam' = c
     /\ upl' = u
     /\ last_output' = after.last_output
     /\ docx_bytes' = after.docx_bytes
     /\ docx_filename' = after.docx_filename
     /\ inSync' = after.inSync
     /\ pass' = [clicked |-> clicked,
                 key |-> IF clicked THEN key ELSE None,
                 image |-> image_pil,
                 disabled |-> ProcessDisabled(image_pil),
                 calls |-> IF clicked THEN r.calls ELSE 0,
                 built |-> clicked /\ r.built,
                 sent |-> IF clicked THEN r.sent ELSE NoInput,
                 remote_raised |-> clicked /\ r.raised,
                 out_text |-> IF clicked THEN out_text ELSE None,
                 out_area |-> IF clicked THEN Str(OutArea(out_text)) ELSE None,
                 crashed |-> after.crashed,
                 download |-> shown,
                 file_name |-> IF shown THEN after.docx_filename ELSE None,
                 data |-> IF shown THEN after.docx_bytes ELSE None]
     /\ UNCHANGED call

\* ----------------------------------------------------------- environment
ErrorMessages == { <<>>, <<"timeout">> }

Responses ==
  { Response(TRUE, Str(<<"Sofa">>), TRUE, Str(<<"nested">>)),
    Response(TRUE, Str(<<"a", "\n", "\n", "b">>), FALSE, None),
    Response(TRUE, Str(<<>>), TRUE, Str(<<"nested">>)),
    Response(FALSE, None, TRUE, Str(<<>>)),
    Response(FALSE, None, TRUE, None),
    Response(TRUE, None, FALSE, None) }

Outcomes == { Raise(m) : m \in ErrorMessages } \cup Responses

\* The remote service answers only when it is called, which takes a client.
OutcomesFor(key) == IF OpenAIClient(key) THEN Outcomes ELSE { Raise(<<>>) }

AssetFiles == { None, Str(<<"text">>) }

Prompts == { Prompt(f, f, None) : f \in AssetFiles }

\* The first script run of a fresh session: no widget holds a value.
Init ==
  /\ cam = NoFile
  /\ upl = NoFile
  /\ last_output = None
  /\ docx_bytes = None
  /\ docx_filename = None
  /\ inSync = TRUE
  /\ pass = [clicked |-> FALSE, key |-> None, image |-> NoImage,
             disabled |-> TRUE, calls |-> 0, built |-> FALSE, sent |-> NoInput,
             remote_raised |-> FALSE, out_text |-> None, out_area |-> None,
             crashed |-> FALSE, download |-> FALSE, file_name |-> None,
             data |-> None]
  /\ call = NoCall

\* A run without a click reads neither the asset files, the remote service
\* nor the clock (all of that is under `if process_clicked:`).
Rerun(c, u, key) == RunScript(FALSE, c, u, key, <<>>, Raise(<<>>), 0)

\* The user takes or clears a photo: the widget value changes and the script
\* reruns; the Process button reports False.
TakePhoto ==
  \E f \in OptFiles \ {cam}, key \in Keys : Rerun(f, upl, key)

\* The user uploads or removes a file.
UploadFile ==
  \E f \in OptFiles \ {upl}, key \in Keys : Rerun(cam, f, key)

\* The user clicks Process, which the page allows only while the button it
\* last rendered is enabled; the script reruns with the same widget values and
\* the button reports True.
ClickProcess ==
  /\ ~pass.disabled
  /\ \E key \in Keys, p \in Prompts, t \in Times :
       \E o \in OutcomesFor(key) : RunScript(TRUE, cam, upl, key, p, o, t)

\* Any other rerun (the download button, a browser refresh of the widgets).
Rerender ==
  \E key \in Keys : Rerun(cam, upl, key)

Next == TakePhoto \/ UploadFile \/ ClickProcess \/ Rerender

Spec == Init /\ [][Next]_vars

\* ------------------------------------------------ the helpers on their own
\* A second specification applies the helper functions to arguments drawn
\* from bounded sets, including arguments the page never passes them (no
\* image, an empty prompt, a data-URL string as image).
Chars == {"a", "\n", "\r"}
TextsUpTo(n) == UNION { [1..k -> Chars] : k \in 0..n }
OptTexts == {None} \cup { Str(s) : s \in TextsUpTo(MaxLen) }

FnImages ==
  { NoImage, Pil(1, TRUE), Pil(2, FALSE),
    StrImage("data:image/jpeg;base64,", 3), StrImage("http://", 4) }

FnResponses == Responses \cup { Response(FALSE, None, FALSE, None) }
FnOutcomes == { Raise(<<"timeout">>) } \cup FnResponses

InitFn == Init

Call_to_mm_content ==
  /\ \E text \in OptTexts, image \in FnImages :
       call' = [fn |-> "_to_mm_content", text |-> text, image |-> image,
                result |-> _to_mm_content(text, image)]
  /\ UNCHANGED <<cam, upl, last_output, docx_bytes, docx_filename, inSync, pass>>

Call_process ==
  /\ \E key \in Keys, prompt_text \in TextsUpTo(1), image \in FnImages,
        outcome \in FnOutcomes :
       call' = [fn |-> "_process", key |-> key, prompt_text |-> prompt_text,
                image |-> image, outcome |-> outcome,
                result |-> _process(key, prompt_text, image, outcome)]
  /\ UNCHANGED <<cam, upl, last_output, docx_bytes, docx_filename, inSync, pass>>

Call_docx_bytes_from_text ==
  /\ \E text \in OptTexts, image \in { NoImage, Pil(1, TRUE), Pil(2, FALSE) } :
       call' = [fn |-> "_docx_bytes_from_text", text |-> text, image |-> image,
                result |-> _docx_bytes_from_text(text, image)]
  /\ UNCHANGED <<cam, upl, last_output, docx_bytes, docx_filename, inSync, pass>>

Call_load_pil_from_uploaded ==
  /\ \E uploaded \in OptFiles :
       call' = [fn |-> "_load_pil_from_uploaded", uploaded |-> uploaded,
                result |-> _load_pil_from_uploaded(uploaded)]
  /\ UNCHANGED <<cam, upl, last_output, docx_bytes, docx_filename, inSync, pass>>

NextFn ==
  \/ Call_to_mm_content
  \/ Call_process
  \/ Call_docx_bytes_from_text
  \/ Call_load_pil_from_uploaded

SpecFn == InitFn /\ [][NextFn]_vars

\* ------------------------------------------------------------------ claims
SessionSet(x) == x.kind # "none"

\* C1: in every render pass the download button is on the page if and only
\* if both last_output and docx_bytes are non-empty (so never in a fresh
\* session).
C1_DownloadIffBothSet ==
  pass.download <=> (Truthy(last_output) /\ Truthy(docx_bytes))

\* C2: last_output and docx_bytes are set together: in every session state a
\* render pass can observe, both were written by the same Process action, or
\* neither was ever written.
C2_SetTogether == inSync

\* C4: when the remote call raises during a Process action the page does not
\* crash, the text shown and stored begins with "Error calling OpenAI:", the
\* export runs on that text, and all three session fields are stored so that
\* the download button appears.
C4_RemoteErrorStillExports ==
  pass.remote_raised =>
    /\ ~pass.crashed
    /\ pass.out_area.v[1] = ErrorPrefix
    /\ last_output = pass.out_text
    /\ last_output.v[1] = ErrorPrefix
    /\ inSync
    /\ Truthy(docx_bytes)
    /\ SessionSet(docx_filename)
    /\ pass.download

\* No bitmap comes out of image acquisition: neither widget holds a file, or
\* the file that `cam or upl` selects fails both decode attempts.
NoImageAvailable(c, u) ==
  \/ ~c.present /\ ~u.present
  \/ c.present /\ c.decode = "bad"
  \/ ~c.present /\ u.present /\ u.decode = "bad"

\* The step condition of C3: the Process button is disabled exactly when no image is available; a
\* pass without an image makes no remote call and leaves the session fields
\* alone; a remote call happens only in a pass started by a click on the
\* enabled button with an image present, and at most once per pass.
C3_Step ==
  LET none == NoImageAvailable(cam', upl')
  IN /\ pass'.disabled <=> none
     /\ none => /\ pass'.calls = 0
                /\ ~pass'.clicked
                /\ UNCHANGED <<last_output, docx_bytes, docx_filename>>
     /\ pass'.calls > 0 => pass'.clicked /\ ~none /\ ~pass.disabled
     /\ pass'.calls <= 1

\* C3: every step of the page keeps the Process button gated on the image:
\* disabled without a bitmap, no remote call and no session change in such a
\* pass, at most one remote call and only after a click with an image.
C3_ProcessGated == [][C3_Step]_vars

\* A pass that finds a file in a widget but no bitmap, with results of an
\* earlier action in the session.
C3_Witness ==
  /\ upl.present
  /\ pass.image.kind = "none"
  /\ pass.disabled
  /\ Truthy(last_output)
  /\ Truthy(docx_bytes)

\* The step condition of C6: a Process action overwrites last_output with exactly the text of that
\* action, whatever was stored before; a pass without a click leaves
\* last_output, docx_bytes and docx_filename as they were.
C6_Step ==
  /\ pass'.clicked => last_output' = pass'.out_text
  /\ ~pass'.clicked => UNCHANGED <<last_output, docx_bytes, docx_filename>>

\* C6: every step either overwrites last_output with the text of the action
\* just run, or (no click) leaves the three session fields unchanged.
C6_Overwritten == [][C6_Step]_vars

\* A plain re-render that still holds the result of an earlier action.
C6_Witness ==
  /\ ~pass.clicked
  /\ Truthy(last_output)
  /\ Truthy(docx_bytes)
  /\ SessionSet(docx_filename)
  /\ pass.download

IsDigit(a) == a \in {"0", "1", "2", "3", "4", "5", "6", "7", "8", "9"}

\* GW-IRC-Donation-Value-Audit--YYYYMMDD-HHMMSS.docx
IsAuditFilename(f) ==
  /\ Len(f) = 17
  /\ f[1] = "GW-IRC-Donation-Value-Audit--"
  /\ \A k \in 2..9 : IsDigit(f[k])
  /\ f[10] = "-"
  /\ \A k \in 11..16 : IsDigit(f[k])
  /\ f[17] = ".docx"

\* The step condition of C10: docx_bytes set implies docx_filename set, of the form
\* GW-IRC-Donation-Value-Audit--YYYYMMDD-HHMMSS.docx; the download button
\* carries that filename; nothing clears either field; and a pass whose export
\* raises changes neither docx_bytes nor docx_filename.
C10_Step ==
  /\ SessionSet(docx_bytes') =>
       SessionSet(docx_filename') /\ IsAuditFilename(docx_filename'.v)
  /\ pass'.download =>
       pass'.file_name = docx_filename' /\ IsAuditFilename(pass'.file_name.v)
  /\ SessionSet(docx_bytes) => SessionSet(docx_bytes')
  /\ SessionSet(docx_filename) => SessionSet(docx_filename')
  /\ pass'.crashed => UNCHANGED <<docx_bytes, docx_filename>>

\* C10: every step keeps docx_bytes accompanied by a well-formed
\* docx_filename, and a pass whose export raises changes neither.
C10_FilenameWithBytes == [][C10_Step]_vars

\* A pass whose export raised while an earlier document is in the session.
C10_Witness ==
  /\ pass.crashed
  /\ Truthy(docx_bytes)
  /\ SessionSet(docx_filename)

\* C5: with no credential configured (the key is None or empty, so client is
\* None) _process returns the fixed message for every prompt and image, does
\* not raise, builds no request content and makes no remote call.
C5_NotConfiguredIsFixed ==
  (call.fn = "_process" /\ ~Truthy(call.key)) =>
    /\ call.result.text = Str(NotConfigured)
    /\ ~call.result.raised
    /\ ~call.result.built
    /\ call.result.calls = 0
    /\ call.result.sent = NoInput

\* _process called with an empty key and no image.
C5_Witness ==
  /\ call.fn = "_process"
  /\ call.key = Str(<<>>)
  /\ call.image = NoImage
  /\ call.outcome.kind = "raise"
  /\ call.result.text = Str(NotConfigured)

\* A call of _process that got a response object back from the service.
Answered == call.fn = "_process" /\ Truthy(call.key) /\ call.outcome.kind = "resp"

\* C7 as stated: output_text is returned whenever the field is present; only
\* when it is absent output[0].content[0].text; only when that navigation
\* fails str(response).
C7_PresentFieldWins ==
  Answered =>
    LET o == call.outcome
    IN /\ o.has_output_text => call.result.text = o.output_text
       /\ (~o.has_output_text /\ o.nav_ok) => call.result.text = o.nested_text
       /\ (~o.has_output_text /\ ~o.nav_ok) => call.result.text = Str(ReprOf(o))

\* C7 amended: output_text is returned when it is present and non-empty; when
\* it is absent, None or empty, output[0].content[0].text is returned as it
\* is; only when that navigation fails, str(response).
C7_NonEmptyFieldWins ==
  Answered =>
    LET o == call.outcome
        usable == o.has_output_text /\ Truthy(o.output_text)
    IN /\ usable => call.result.text = o.output_text
       /\ (~usable /\ o.nav_ok) => call.result.text = o.nested_text
       /\ (~usable /\ ~o.nav_ok) => call.result.text = Str(ReprOf(o))

\* A response whose output_text is present but empty: the nested text wins.
C7_Witness ==
  /\ Answered
  /\ call.outcome.has_output_text
  /\ call.outcome.output_text = Str(<<>>)
  /\ call.outcome.nav_ok
  /\ call.result.text = Str(<<"nested">>)

\* An image that yields an image part: a bitmap that serialises to PNG, or a
\* string starting with "data:image".
UsableImage(image) ==
  \/ image.kind = "pil" /\ image.pngOk
  \/ image.kind = "str" /\ StartsWithDataImage(image.prefix)

\* The parts C8 expects for a text and an image.
PartsAsClaimed(parts, text, image) ==
  LET hasText == text.kind = "str" /\ text.v # <<>>
      n == (IF hasText THEN 1 ELSE 0) + (IF UsableImage(image) THEN 1 ELSE 0)
  IN /\ Len(parts) = n
     /\ n <= 2
     /\ hasText => parts[1].type = "input_text" /\ parts[1].text = text.v
     /\ UsableImage(image) =>
          /\ parts[n].type = "input_image"
          /\ parts[n].image_url.data = image.id
          /\ parts[n].image_url.prefix =
               (IF image.kind = "str" THEN image.prefix ELSE "data:image/png;base64,")

\* C8: _to_mm_content returns at most two parts, the text part first iff the
\* text is non-empty, then the image part iff the image is usable (a string
\* image passed through unchanged, a bitmap that fails to serialise left out
\* without raising); _process sends the parts as one user turn when there are
\* any, and the raw prompt text when there are none.
C8_ContentParts ==
  /\ call.fn = "_to_mm_content" =>
       PartsAsClaimed(call.result, call.text, call.image)
  /\ (call.fn = "_process" /\ Truthy(call.key)) =>
       LET sent == call.result.sent
           empty == call.prompt_text = <<>> /\ ~UsableImage(call.image)
       IN /\ call.result.calls = 1
          /\ empty => sent.kind = "raw" /\ sent.text = call.prompt_text
          /\ ~empty =>
               /\ sent.kind = "user_turn"
               /\ PartsAsClaimed(sent.content, Str(call.prompt_text), call.image)

\* Text with a bitmap that cannot be written as PNG: a text-only list.
C8_Witness ==
  /\ call.fn = "_to_mm_content"
  /\ Truthy(call.text)
  /\ call.image = Pil(2, FALSE)
  /\ Len(call.result) = 1
  /\ call.result[1].type = "input_text"

\* The number of lines of a text: its line terminators ("\r\n" counted once),
\* plus one when the text does not end in one.
NumLines(s) ==
  Cardinality({ i \in 1..Len(s) :
                  IsBreak(s[i]) /\ ~(s[i] = "\r" /\ i < Len(s) /\ s[i + 1] = "\n") })
    + (IF s # <<>> /\ ~IsBreak(s[Len(s)]) THEN 1 ELSE 0)

RECURSIVE Flatten(_)
Flatten(ps) == IF ps = <<>> THEN <<>> ELSE Head(ps).text \o Flatten(Tail(ps))

IsParagraph(b) == b.kind = "paragraph"
IsPicture(b) == b.kind = "picture"

\* An export call with a bitmap PNG can hold and a non-empty text.
ExportedWithImage ==
  /\ call.fn = "_docx_bytes_from_text"
  /\ call.image.kind = "pil"
  /\ call.image.pngOk
  /\ Truthy(call.text)

=============================================================================
